---------------------------- MODULE Spec2Model ----------------------------
(***************************************************************************)
(* Model of src/src/App.js (my-finance-app): the App component's state,    *)
(* its handlers (add income, add expense, add recurring template, mark     *)
(* paid, delete), the Firestore snapshot listeners and the derived         *)
(* figures of the dashboard and the reports.                               *)
(*                                                                         *)
(* Time.  A JS Date is an instant; it is modelled as an integer number of  *)
(* ticks since 2025-01-01T00:00Z, a day being TicksPerDay ticks.  The      *)
(* local-time getters and constructors of Date (getDate, getDay,           *)
(* new Date(y, m, d), setDate, toLocaleDateString) work on the instant     *)
(* shifted by the zone offset tz; toISOString and new Date("YYYY-MM-DD")   *)
(* work in UTC.  The calendar is the one of the year 2025.                 *)
(*                                                                         *)
(* Rendering.  App renders when its state changes, never when the clock    *)
(* moves: what the page shows (the report, which bills carry a pay or a    *)
(* delete button) was computed at the latest render, a handler reads the   *)
(* clock and the zone when it runs.                                        *)
(*                                                                         *)
(* Specifications.  Spec: start-up and the life of the bills and expenses  *)
(* on a device that stays in its zone.  SpecTravel: the bills on a device  *)
(* whose zone changes.  SpecReport: the report periods around the end of   *)
(* a month.  SpecLedger: entering incomes and expenses and deleting them   *)
(* from the report's history list.  SpecDues: the figures of the           *)
(* dashboard's dues card.                                                  *)
(***************************************************************************)
EXTENDS Integers, Sequences, FiniteSets, TLC

\* ------------------------------------------------------------------ bounds
\* resolution of the clock: ticks per day (4 = six-hour ticks)
TicksPerDay == 4
\* the clock starts at FirstInstant and may advance MaxTicks ticks
MaxTicks == 2
\* sizes of the store's collections
MaxExpenses == 2
MaxIncomes == 2
MaxTemplates == 2
\* number of document ids the store hands out
MaxDocs == 3

\* ---------------------------------------------------------------- calendar
\* days of the months of 2025, indexed by the JS month number + 1
DaysInMonth == <<31, 28, 31, 30, 31, 30, 31, 31, 30, 31, 30, 31>>

\* 'short' month names of the en-US locale, indexed by JS month number + 1
MonthShort ==
  <<"Jan", "Feb", "Mar", "Apr", "May", "Jun",
    "Jul", "Aug", "Sep", "Oct", "Nov", "Dec">>

RECURSIVE DaysBefore(_)
\* number of days of 2025 before the first day of JS month m (0..11)
DaysBefore(m) == IF m = 0 THEN 0 ELSE DaysBefore(m - 1) + DaysInMonth[m]

\* day index (0 = 1 Jan 2025) of day-of-month d of JS month m; d may lie
\* outside the month (0 = last day of the previous month), as in JS
DayIndex(m, d) == DaysBefore(m) + d - 1

RECURSIVE MonthOfFrom(_, _)
MonthOfFrom(day, m) ==
  IF day < DaysBefore(m) + DaysInMonth[m + 1] THEN m ELSE MonthOfFrom(day, m + 1)

\* JS month number (0..11) of a day index of 2025
MonthOfDay(day) == MonthOfFrom(day, 0)

\* day of the month (1..31) of a day index
DateOfDay(day) == day - DaysBefore(MonthOfDay(day)) + 1

\* JS weekday (0 = Sunday) of a day index; 1 Jan 2025 is a Wednesday
WeekdayOfDay(day) == (day + 3) % 7


\* ------------------------------------------------------------- environment
VARIABLES
  tz,                 \* zone offset of the device, in ticks east of UTC
  now,                \* the clock: the instant new Date() returns
  configured,         \* firebaseConfig has an apiKey and a projectId
  authPc,             \* position of the initialization effect / auth callback
  db, userId, isAuthReady, isLoading, error,
  subscribed,         \* the state of each of the three onSnapshot listeners
  storeIncomes, storeExpenses, storeTemplates,   \* the user's collections
  nextId,             \* next document id the store hands out
  incomes, expenses, recurringTemplates,         \* React state: local lists
  activeView, reportView, duesFilter,
  filteredTransactions,   \* the memoised report (useMemo)
  getPaidAmount,      \* the memoised paid amount of the dashboard (useMemo)
  isPaid,             \* the bills the latest render of a bill list found
                      \* paid: they show "Paid" or a delete button, the
                      \* other bills on the page a "Mark Paid" / "Pay" button
  last                \* what the step just taken did, when it ran a handler:
                      \* the store requests it issued, the store's answer
                      \* and the alert it showed

vars ==
  <<tz, now, configured, authPc, db, userId, isAuthReady, isLoading, error,
    subscribed, storeIncomes, storeExpenses, storeTemplates, nextId,
    incomes, expenses, recurringTemplates, activeView, reportView,
    duesFilter, filteredTransactions, getPaidAmount, isPaid, last>>

envVars == <<tz, configured>>
authVars == <<authPc, db, userId, isAuthReady, isLoading, error>>
storeVars == <<storeIncomes, storeExpenses, storeTemplates, nextId>>
localVars == <<incomes, expenses, recurringTemplates>>
viewVars == <<activeView, reportView, duesFilter>>
pageVars == <<filteredTransactions, getPaidAmount, isPaid>>

\* --------------------------------------------------------------- JS values
\* null / undefined (an absent field, an unset state)
Null == <<>>
\* a document id of the store
DocId(n) == <<"doc", n>>
\* the uid Firebase gives the anonymous user
Uid == <<"uid", 1>>

\* a form field holds text, a template field read back from the store holds
\* a number: parseFloat is applied to both
Text(s) == [t |-> "string", v |-> s]
Num(n) == [t |-> "number", v |-> n]

\* decimal texts the forms are filled with, and the numbers they denote
DecimalText == ("100" :> 100) @@ ("250" :> 250) @@ ("-5" :> -5)

\* parseFloat(x): a number is returned as it is, a text is read as a decimal
parseFloat(x) == IF x.t = "number" THEN x.v ELSE DecimalText[x.v]

\* !x for a form text: the empty string is falsy
IsEmpty(s) == s = ""

\* ----------------------------------------------------------------- JS Date
\* first instant the clock shows: the last tick (UTC) of 31 Oct 2025
FirstInstant == DayIndex(10, 1) * TicksPerDay - 1
LastInstant == FirstInstant + MaxTicks

\* zone offsets: one tick west of UTC, UTC, one tick east of UTC
ZoneOffsets == {-1, 0, 1}

\* the local wall-clock reading of instant t, in ticks since local 1 Jan 00:00
LocalTicks(t) == t + tz
\* day index of the local calendar day of instant t
LocalDay(t) == LocalTicks(t) \div TicksPerDay
\* ticks since local midnight
LocalTimeOfDay(t) == LocalTicks(t) % TicksPerDay
\* the instant of local wall-clock reading (day, time of day)
FromLocal(day, tod) == day * TicksPerDay + tod - tz

getMonth(t) == MonthOfDay(LocalDay(t))
getDate(t) == DateOfDay(LocalDay(t))
getDay(t) == WeekdayOfDay(LocalDay(t))

\* new Date(2025, m, d): local midnight of day d of month m; d and m may
\* overflow (d = 0 is the last day of month m - 1)
NewDateYMD(m, d) == FromLocal(DayIndex(m, d), 0)

\* date.setDate(d): the same local month and time of day, day-of-month d
\* (d <= 0 and d > length of the month roll over into the neighbours)
setDate(t, d) == FromLocal(DayIndex(getMonth(t), d), LocalTimeOfDay(t))

\* date.setHours(0, 0, 0, 0)
StartOfDay(t) == FromLocal(LocalDay(t), 0)
\* date.setHours(23, 59, 59, 999): the last instant of the local day; with
\* instants counted in whole ticks, u <= 23:59:59.999 iff u <= last tick
EndOfDay(t) == FromLocal(LocalDay(t), TicksPerDay - 1)

\* date.toISOString().substring(0, 10): the UTC calendar date "YYYY-MM-DD"
\* as <<year, month 1..12, day>>
IsoDate(t) ==
  LET day == t \div TicksPerDay
  IN  <<2025, MonthOfDay(day) + 1, DateOfDay(day)>>

\* new Date("YYYY-MM-DD"): a date-only text is read as 00:00 UTC of that day
ParseIsoDate(s) == DayIndex(s[2] - 1, s[3]) * TicksPerDay

\* formatMonthYear(date): toLocaleDateString('en-US', {year, month:'short'}),
\* "Nov 2025", in the browser's zone
\* (every caller passes a Date, so the !date branch is never taken)
formatMonthYear(date) == <<MonthShort[getMonth(date) + 1], 2025>>


\* ------------------------------------------------------------ record store
\* obj.field of a JS object: undefined when the object has no such field
Get(obj, f) == IF f \in DOMAIN obj THEN obj[f] ELSE Null
\* truthiness of a boolean field that may be absent
IsSet(obj, f) == f \in DOMAIN obj /\ obj[f]

\* {id: doc.id, ...doc.data()}
WithId(id, data) ==
  [f \in DOMAIN data \cup {"id"} |-> IF f = "id" THEN id ELSE data[f]]

\* elements of a list
Elems(list) == {list[i] : i \in 1..Len(list)}

\* orderBy('date', 'desc'): a before b (ties by document id)
DateDesc(a, b) ==
  a.date > b.date \/ (a.date = b.date /\ a.id[2] > b.id[2])

\* orderBy('name', 'asc'); the model's names are ordered by NameRank
NameRank == ("Gym" :> 1) @@ ("Net" :> 2) @@ ("Rent" :> 3)

NameAsc(a, b) ==
  NameRank[a.name] < NameRank[b.name]
    \/ (a.name = b.name /\ a.id[2] < b.id[2])

\* a is delivered before b by a query ordered by field
Before(field, a, b) == IF field = "date" THEN DateDesc(a, b) ELSE NameAsc(a, b)

RECURSIVE OrderedBy(_, _)
\* the documents of collection docs as the query ordered by field delivers
\* them
OrderedBy(docs, field) ==
  IF docs = {} THEN <<>>
  ELSE LET first == CHOOSE a \in docs : \A b \in docs \ {a} : Before(field, a, b)
       IN  <<first>> \o OrderedBy(docs \ {first}, field)

\* what the three queries of the data-fetching effect deliver
IncomeDocs == OrderedBy(storeIncomes, "date")
ExpenseDocs == OrderedBy(storeExpenses, "date")
RecurringDocs == OrderedBy(storeTemplates, "name")


\* Collection Path Helpers
getIncomeCollectionPath(uid) == <<"users", uid, "incomes">>
getExpenseCollectionPath(uid) == <<"users", uid, "expenses">>
getRecurringTemplateCollectionPath(uid) == <<"users", uid, "recurringTemplates">>

\* ------------------------------------------------------------- subscriptions
\* the listeners of the data-fetching effect, named by their collections
Listeners == {"incomes", "expenses", "recurringTemplates"}

\* a listener is "none" until onSnapshot attaches it to the query of a
\* collection path, then "open" until its unsubscribe function is called,
\* then "closed"
NoListener == [l \in Listeners |-> [state |-> "none", path |-> Null]]

\* the listeners as the data-fetching effect attaches them for user uid
Attached(uid) ==
  [l \in Listeners |->
     [state |-> "open",
      path |-> IF l = "incomes" THEN getIncomeCollectionPath(uid)
               ELSE IF l = "expenses" THEN getExpenseCollectionPath(uid)
               ELSE getRecurringTemplateCollectionPath(uid)]]

\* unsubIncomes() / unsubExpenses() / unsubRecurring(): the listener is
\* detached; calling the function of a detached listener does nothing
Unsubscribe(subs, l) ==
  [subs EXCEPT ![l].state = IF @ = "open" THEN "closed" ELSE @]

\* App is mounted: React runs the cleanup of the data-fetching effect when
\* App unmounts (its dependencies do not change once the listeners are
\* attached)
Mounted == \A l \in Listeners : subscribed[l].state # "closed"

\* ------------------------------------------------------------------ inputs
Frequencies == {"Monthly", "Weekly", "Daily"}
Views == {"Home", "Reports", "AddIncome", "Recurring", "AddExpense"}

\* the date field of a form: the value the form proposes when it is opened
\* at the current instant, new Date().toISOString().substring(0, 10)
FormDate == IsoDate(now)

\* what the add-expense form may hold when it is submitted (the frequency
\* selector is shown only when isRecurring is ticked)
ExpenseForms ==
  { [name |-> n, amount |-> Text(a), date |-> FormDate,
     category |-> "Groceries", isRecurring |-> FALSE, frequency |-> "Monthly"] :
      n \in {"", "Gym"}, a \in {"", "100"} }
  \cup
  { [name |-> "Gym", amount |-> Text("100"), date |-> FormDate,
     category |-> "Subscription", isRecurring |-> TRUE, frequency |-> f] :
      f \in {"Weekly"} }

\* what the add-income form may hold when it is submitted
IncomeForms ==
  { [clientName |-> n, amount |-> Text(a), date |-> FormDate,
     type |-> "RETAINER"] :
      n \in {"", "Acme"}, a \in {"", "250"} }

\* the forms with a negative amount typed into the amount field
\* (<input type="number" step="0.01" required>, no min): the browser's
\* validation lets the submit event through
NegativeIncomeForms ==
  { [clientName |-> "Acme", amount |-> Text("-5"), date |-> FormDate,
     type |-> "RETAINER"] }

NegativeExpenseForms ==
  { [name |-> "Gym", amount |-> Text("-5"), date |-> FormDate,
     category |-> c, isRecurring |-> r, frequency |-> "Monthly"] :
      <<c, r>> \in {<<"Groceries", FALSE>>, <<"Subscription", TRUE>>} }

\* the template the user set up in an earlier session
SeedTemplates ==
  { [id |-> DocId(1), name |-> "Rent", amount |-> 250,
     category |-> "Rent/Mortgage", frequency |-> "Monthly", dueDay |-> 5,
     createdAt |-> ParseIsoDate(<<2025, 10, 5>>)] }

\* alerts
NoNotice == ""
AlreadyPaidNotice == "This bill has already been marked as paid for this month!"
RequiredNotice == "Please fill in all required fields"

\* the user action that runs a handler: its name and the id of the template
\* or record it is about (Null when it is about none)
Call(op, arg) == [op |-> op, arg |-> arg]

\* the entry a handler leaves in last: the call, the requests sent to the
\* store, whether the store accepted, the id of the new document, the alert
Did(call, reqs, ok, newId, notice) ==
  [op |-> call.op, arg |-> call.arg, reqs |-> reqs, ok |-> ok,
   newId |-> newId, notice |-> notice]

\* the entry of a step that ran no handler
Idle == Did(Call("none", Null), <<>>, FALSE, Null, NoNotice)

\* the entry of a step in which the memo of the report ran
Recomputed == Did(Call("memo", Null), <<>>, FALSE, Null, NoNotice)

\* ------------------------------------------------------------ calculations
RECURSIVE SumAmounts(_)
\* list.reduce((sum, x) => sum + x.amount, 0)
SumAmounts(list) ==
  IF list = <<>> THEN 0 ELSE list[1].amount + SumAmounts(Tail(list))

\* A JS number that is the result of a division is kept as the exact
\* fraction num / den (den > 0); the rounding of the floating-point division
\* is not modelled.
Number(n) == [num |-> n, den |-> 1]
\* a / b
Divide(a, b) == [num |-> a, den |-> b]
\* q * k
Times(q, k) == [num |-> q.num * k, den |-> q.den]
\* Math.max(a, b)
Max(a, b) == IF a >= b THEN a ELSE b

\* (the average as it would be over the incomes of the report period
\* instead of every income)
avgMonthlyIncome_ofPeriod(incs) ==
  LET InPeriod(x) == x \in Elems(filteredTransactions.incomes)
      ofPeriod == SelectSeq(incs, InPeriod)
  IN  IF Len(ofPeriod) = 0 THEN Number(0)
      ELSE Divide(SumAmounts(ofPeriod), Max(1, Len(ofPeriod)))

\* avgMonthlyIncome: the memo over the income list incs
avgMonthlyIncome(incs) ==
  IF Len(incs) = 0 THEN Number(0)
  ELSE LET totalIncome == SumAmounts(incs)
       IN  Divide(totalIncome, Max(1, Len(incs)))

\* avgMonthlyExpense: the memo over the expense list exps
avgMonthlyExpense(exps) ==
  IF Len(exps) = 0 THEN Number(0)
  ELSE LET totalExpense == SumAmounts(exps)
       IN  Divide(totalExpense, Max(1, Len(exps)))

\* (the filter as it would be without the default: a template with no
\* frequency is of no frequency)
filteredDues_noDefault(templates, filter) ==
  LET Selected(template) == Get(template, "frequency") = filter
  IN  SelectSeq(templates, Selected)

\* filteredDues: the templates of the frequency the dues filter selects
filteredDues(templates, filter) ==
  LET Selected(template) ==
        LET frequency == IF Get(template, "frequency") \in {Null, ""}
                           THEN "Monthly" ELSE template.frequency
        IN  frequency = filter
  IN  SelectSeq(templates, Selected)

\* [start, end] of the report period view, as the memo computes it when it
\* runs at the current instant
ReportRange(view) ==
  IF view = "Monthly"
    THEN [start |-> NewDateYMD(getMonth(now), 1),
          end |-> NewDateYMD(getMonth(now) + 1, 0)]
  ELSE IF view = "Weekly"
    THEN LET day == getDay(now)
             diff == getDate(now) - day + (IF day = 0 THEN -6 ELSE 1)
             start == setDate(now, diff)
         IN  [start |-> start, end |-> setDate(start, getDate(start) + 6)]
  ELSE [start |-> StartOfDay(now), end |-> EndOfDay(now)]

\* (the report as it would be with the totals taken over every record
\* instead of the records of the period)
filteredTransactionsOf_totalsOfAll(view, incs, exps) ==
  LET range == ReportRange(view)
      InRange(x) == x.date >= range.start /\ x.date <= range.end
      filteredIncomes == SelectSeq(incs, InRange)
      filteredExpenses == SelectSeq(exps, InRange)
      totalIncome == SumAmounts(incs)
      totalExpense == SumAmounts(exps)
  IN  [incomes |-> filteredIncomes,
       expenses |-> filteredExpenses,
       totalIncome |-> totalIncome,
       totalExpense |-> totalExpense,
       netCashflow |-> totalIncome - totalExpense]

\* filteredTransactions: what the memo computes at the current instant for
\* period view and the lists incs and exps
filteredTransactionsOf(view, incs, exps) ==
  LET range == ReportRange(view)
      InRange(x) == x.date >= range.start /\ x.date <= range.end
      filteredIncomes == SelectSeq(incs, InRange)
      filteredExpenses == SelectSeq(exps, InRange)
      totalIncome == SumAmounts(filteredIncomes)
      totalExpense == SumAmounts(filteredExpenses)
  IN  [incomes |-> filteredIncomes,
       expenses |-> filteredExpenses,
       totalIncome |-> totalIncome,
       totalExpense |-> totalExpense,
       netCashflow |-> totalIncome - totalExpense]

\* (the paid amount as it would be if it counted only the payments of the
\* bills the dues filter selects)
getPaidAmountOf_ofFilter(exps) ==
  LET currentMonthYear == formatMonthYear(now)
      dues == filteredDues(recurringTemplates, duesFilter)
      Paid(exp) ==
        /\ \E i \in 1..Len(dues) : Get(exp, "recurringTemplateId") = dues[i].id
        /\ formatMonthYear(exp.date) = currentMonthYear
      paidExpenses == SelectSeq(exps, Paid)
  IN  SumAmounts(paidExpenses)

\* getPaidAmount: what the memo computes at the current instant for the
\* expense list exps
getPaidAmountOf(exps) ==
  LET currentMonthYear == formatMonthYear(now)
      Paid(exp) ==
        /\ Get(exp, "recurringTemplateId") # Null
        /\ formatMonthYear(exp.date) = currentMonthYear
      paidExpenses == SelectSeq(exps, Paid)
  IN  SumAmounts(paidExpenses)

\* totalMonthlyDues: the memo over filteredDues
totalMonthlyDues == SumAmounts(filteredDues(recurringTemplates, duesFilter))

\* (the remaining amount as it would be if it were kept from falling
\* below 0)
remainingToPay_clamped == Max(0, totalMonthlyDues - getPaidAmount)

\* (the progress as it would be if it were kept from exceeding 100)
paymentProgress_clamped ==
  IF totalMonthlyDues > 0
    THEN IF getPaidAmount > totalMonthlyDues THEN Number(100)
         ELSE Times(Divide(getPaidAmount, totalMonthlyDues), 100)
    ELSE Number(0)

\* the figures every render derives from the two memos
remainingToPay == totalMonthlyDues - getPaidAmount

paymentProgress ==
  IF totalMonthlyDues > 0
    THEN Times(Divide(getPaidAmount, totalMonthlyDues), 100)
    ELSE Number(0)

\* (the flag as it would be if read off paidFor instead of
\* the month of the record's date)
DashboardIsPaid_byPaidFor(exps, bill) ==
  LET currentMonthYear == formatMonthYear(now)
  IN  \E i \in 1..Len(exps) :
        /\ Get(exps[i], "recurringTemplateId") = bill.id
        /\ Get(exps[i], "paidFor") = currentMonthYear

\* Dashboard, "Due Details": the paid flag of a listed bill, computed at
\* the current instant from the expense list exps
DashboardIsPaid(exps, bill) ==
  LET currentMonthYear == formatMonthYear(now)
  IN  \E i \in 1..Len(exps) :
        /\ Get(exps[i], "recurringTemplateId") = bill.id
        /\ formatMonthYear(exps[i].date) = currentMonthYear

\* RecurringBills: the paid flag of a bill, computed at the current instant
\* from the expense list exps
RecurringIsPaid(exps, bill) ==
  LET currentMonthYear == formatMonthYear(now)
  IN  \E i \in 1..Len(exps) :
        /\ Get(exps[i], "recurringTemplateId") = bill.id
        /\ formatMonthYear(exps[i].date) = currentMonthYear

\* ---------------------------------------------------------------- the page
\* the views are rendered once loading has ended without an error, while
\* App is mounted
Rendered == Mounted /\ ~isLoading /\ error = ""

\* the bills a page lists: the dashboard's "Due Details" shows the first
\* three of filteredDues, the recurring-bills view every template
BillsShown(rendered, view, filter, templates) ==
  IF ~rendered THEN <<>>
  ELSE IF view = "Home"
    THEN LET dues == filteredDues(templates, filter)
         IN  SubSeq(dues, 1, IF Len(dues) < 3 THEN Len(dues) ELSE 3)
  ELSE IF view = "Recurring" THEN templates
  ELSE <<>>

\* the bills a render at the current instant finds paid
PaidShown(rendered, view, filter, templates, exps) ==
  {bill.id : bill \in
     {b \in Elems(BillsShown(rendered, view, filter, templates)) :
        IF view = "Home" THEN DashboardIsPaid(exps, b)
        ELSE RecurringIsPaid(exps, b)}}

\* the bills on the page
BillsOnPage == BillsShown(Rendered, activeView, duesFilter, recurringTemplates)

\* a change of App's state renders the page anew, with the clock and the
\* zone of that moment (no rendering step changes either); nothing else does
Render ==
  isPaid' = PaidShown(~isLoading' /\ error' = "", activeView', duesFilter',
                      recurringTemplates', expenses')

\* the memo runs anew when incomes, expenses or reportView have changed
Recompute ==
  filteredTransactions' = filteredTransactionsOf(reportView', incomes', expenses')

\* the memo of the paid amount runs anew when expenses has changed
RecomputePaid ==
  getPaidAmount' = getPaidAmountOf(expenses')

\* -------------------------------------------------------------------- Init
Init ==
  /\ tz \in ZoneOffsets
  /\ now = FirstInstant
  /\ configured \in BOOLEAN
  /\ authPc = "start"
  /\ db = FALSE
  /\ userId = Null
  /\ isAuthReady = FALSE
  /\ isLoading = TRUE
  /\ error = ""
  /\ subscribed = NoListener
  /\ storeIncomes = {}
  /\ storeExpenses = {}
  /\ storeTemplates = SeedTemplates
  /\ nextId = Cardinality(SeedTemplates) + 1
  /\ incomes = <<>>
  /\ expenses = <<>>
  /\ recurringTemplates = <<>>
  /\ activeView = "Home"
  /\ reportView = "Monthly"
  /\ duesFilter = "Monthly"
  /\ filteredTransactions = filteredTransactionsOf(reportView, incomes, expenses)
  /\ getPaidAmount = getPaidAmountOf(expenses)
  /\ isPaid = PaidShown(Rendered, activeView, duesFilter, recurringTemplates,
                        expenses)
  /\ last = Idle

\* the clock advances, up to instant limit
TickUntil(limit) ==
  /\ now < limit
  /\ now' = now + 1
  /\ UNCHANGED <<envVars, authVars, subscribed, storeVars, localVars,
                 viewVars, pageVars>>
  /\ last' = Idle

Tick == TickUntil(LastInstant)

\* ------------------------------------------------- Firebase initialization
\* the initialization effect without the check of the configuration
InitializeFirebase_noCheck ==
  /\ authPc = "start"
  /\ ~db
  /\ db' = TRUE
  /\ authPc' = "listening"
  /\ UNCHANGED <<error, isLoading>>
  /\ UNCHANGED <<envVars, now, userId, isAuthReady, subscribed, storeVars,
                 localVars, viewVars, filteredTransactions, getPaidAmount>>
  /\ Render
  /\ last' = Idle

\* the initialization effect: runs once, while db is unset
InitializeFirebase ==
  /\ authPc = "start"
  /\ ~db
  /\ IF ~configured
       THEN /\ error' = "Firebase configuration is missing. Please check your .env file."
            /\ isLoading' = FALSE
            /\ authPc' = "failed"
            /\ UNCHANGED db
       ELSE /\ db' = TRUE
            /\ authPc' = "listening"
            /\ UNCHANGED <<error, isLoading>>
  /\ UNCHANGED <<envVars, now, userId, isAuthReady, subscribed, storeVars,
                 localVars, viewVars, filteredTransactions, getPaidAmount>>
  /\ Render
  /\ last' = Idle

\* the tail of the onAuthStateChanged callback
AuthReady ==
  /\ userId' = Uid
  /\ isAuthReady' = TRUE
  /\ isLoading' = FALSE

\* onAuthStateChanged delivers the persisted user, or none
AuthStateChanged(user) ==
  /\ authPc = "listening"
  /\ UNCHANGED <<envVars, now, db, error, subscribed, storeVars, localVars,
                 viewVars, filteredTransactions, getPaidAmount>>
  /\ IF user = Null
       THEN /\ authPc' = "signingIn"
            /\ UNCHANGED <<userId, isAuthReady, isLoading, isPaid>>
       ELSE /\ authPc' = "ready"
            /\ AuthReady
            /\ Render
  /\ last' = Idle

\* await signInAnonymously(firebaseAuth) resolves
SignInResolved ==
  /\ authPc = "signingIn"
  /\ authPc' = "ready"
  /\ AuthReady
  /\ UNCHANGED <<envVars, now, db, error, subscribed, storeVars, localVars,
                 viewVars, filteredTransactions, getPaidAmount>>
  /\ Render
  /\ last' = Idle

\* a rejection handler that sets the error and leaves isLoading as it is
SignInRejected_staysLoading ==
  /\ authPc = "signingIn"
  /\ authPc' = "authFailed"
  /\ error' = "Authentication failed."
  /\ UNCHANGED isLoading
  /\ UNCHANGED <<envVars, now, db, userId, isAuthReady, subscribed,
                 storeVars, localVars, viewVars, filteredTransactions, getPaidAmount>>
  /\ Render
  /\ last' = Idle

\* await signInAnonymously(firebaseAuth) rejects
SignInRejected ==
  /\ authPc = "signingIn"
  /\ authPc' = "authFailed"
  /\ error' = "Authentication failed."
  /\ isLoading' = FALSE
  /\ UNCHANGED <<envVars, now, db, userId, isAuthReady, subscribed,
                 storeVars, localVars, viewVars, filteredTransactions, getPaidAmount>>
  /\ Render
  /\ last' = Idle

\* ------------------------------------------------------------ data fetching
\* a data-fetching effect that waits for the database handle only
SetupListeners_early ==
  /\ db
  /\ Mounted
  /\ subscribed = NoListener
  /\ subscribed' = Attached(userId)
  /\ UNCHANGED <<envVars, now, authVars, storeVars, localVars, viewVars,
                 pageVars>>
  /\ last' = Idle

\* the data-fetching effect attaches the three listeners
SetupListeners ==
  /\ isAuthReady /\ db /\ userId # Null
  /\ Mounted
  /\ subscribed = NoListener
  /\ subscribed' = Attached(userId)
  /\ UNCHANGED <<envVars, now, authVars, storeVars, localVars, viewVars,
                 pageVars>>
  /\ last' = Idle

\* a cleanup that leaves the template listener attached
Cleanup_forgetsRecurring(subs) ==
  Unsubscribe(Unsubscribe(subs, "incomes"), "expenses")

\* unsubIncomes(); unsubExpenses(); unsubRecurring();
Cleanup(subs) ==
  Unsubscribe(Unsubscribe(Unsubscribe(subs, "incomes"), "expenses"),
              "recurringTemplates")

\* React runs the cleanup the data-fetching effect returned (App unmounts);
\* an effect that returned early has no cleanup
CleanupListeners ==
  /\ subscribed # NoListener
  /\ subscribed' = Cleanup(subscribed)
  /\ UNCHANGED <<envVars, now, authVars, storeVars, localVars, viewVars,
                 pageVars>>
  /\ last' = Idle

\* an income listener that merges the delivery into the list it has
IncomeSnapshot_merge ==
  /\ subscribed.incomes.state = "open"
  /\ incomes # IncomeDocs
  /\ incomes' =
       incomes \o SelectSeq(IncomeDocs, LAMBDA d : d \notin Elems(incomes))
  /\ UNCHANGED <<envVars, now, authVars, subscribed, storeVars, expenses,
                 recurringTemplates, viewVars, getPaidAmount>>
  /\ Recompute
  /\ Render
  /\ last' = Recomputed

\* the income listener: setIncomes(data)
IncomeSnapshot ==
  /\ subscribed.incomes.state = "open"
  /\ incomes # IncomeDocs
  /\ incomes' = IncomeDocs
  /\ UNCHANGED <<envVars, now, authVars, subscribed, storeVars, expenses,
                 recurringTemplates, viewVars, getPaidAmount>>
  /\ Recompute
  /\ Render
  /\ last' = Recomputed

\* the expense listener: setExpenses(data)
ExpenseSnapshot ==
  /\ subscribed.expenses.state = "open"
  /\ expenses # ExpenseDocs
  /\ expenses' = ExpenseDocs
  /\ UNCHANGED <<envVars, now, authVars, subscribed, storeVars, incomes,
                 recurringTemplates, viewVars>>
  /\ Recompute
  /\ RecomputePaid
  /\ Render
  /\ last' = Recomputed

\* the template listener: setRecurringTemplates(data)
RecurringSnapshot ==
  /\ subscribed.recurringTemplates.state = "open"
  /\ recurringTemplates # RecurringDocs
  /\ recurringTemplates' = RecurringDocs
  /\ UNCHANGED <<envVars, now, authVars, subscribed, storeVars, incomes,
                 expenses, viewVars, filteredTransactions, getPaidAmount>>
  /\ Render
  /\ last' = Idle

\* ---------------------------------------------------------------- handlers
\* A handler sends its request and awaits the store's answer; the model
\* takes the request, the answer (accepted or rejected) and the code after
\* the await as one step.  Each handler leaves its trace in last.

\* addDoc(collection(db, path), doc) / deleteDoc(doc(db, path, id))
AddDoc(path, doc) == [kind |-> "addDoc", path |-> path, doc |-> doc]
DeleteDoc(path, id) == [kind |-> "deleteDoc", path |-> path, id |-> id]

\* {...data, amount: parseFloat(data.amount),
\*  date: Timestamp.fromDate(new Date(data.date))}
Stored(data) ==
  [f \in DOMAIN data |->
     IF f = "amount" THEN parseFloat(data.amount)
     ELSE IF f = "date" THEN ParseIsoDate(data.date)
     ELSE data[f]]

\* (the handler as it would be if it went to the dashboard whatever the
\* store's answer)
handleAddIncome_alwaysHome(data) ==
  IF ~db \/ userId = Null
    THEN /\ last' = Did(Call("addIncome", Null), <<>>, FALSE, Null, NoNotice)
         /\ UNCHANGED <<storeVars, activeView>>
    ELSE /\ Cardinality(storeIncomes) < MaxIncomes
         /\ nextId <= MaxDocs
         /\ activeView' = "Home"
         /\ \E accepted \in BOOLEAN :
              LET req == AddDoc(getIncomeCollectionPath(userId), Stored(data))
              IN  IF accepted
                    THEN /\ storeIncomes' =
                              storeIncomes \cup {WithId(DocId(nextId), req.doc)}
                         /\ nextId' = nextId + 1
                         /\ last' = Did(Call("addIncome", Null), <<req>>, TRUE,
                                        DocId(nextId), NoNotice)
                    ELSE /\ last' = Did(Call("addIncome", Null), <<req>>, FALSE, Null,
                                        "Failed to add income. Please try again.")
                         /\ UNCHANGED <<storeIncomes, nextId>>
         /\ UNCHANGED <<storeExpenses, storeTemplates>>

handleAddIncome(data) ==
  IF ~db \/ userId = Null
    THEN /\ last' = Did(Call("addIncome", Null), <<>>, FALSE, Null, NoNotice)
         /\ UNCHANGED <<storeVars, activeView>>
    ELSE /\ Cardinality(storeIncomes) < MaxIncomes
         /\ nextId <= MaxDocs
         /\ \E accepted \in BOOLEAN :
              LET req == AddDoc(getIncomeCollectionPath(userId), Stored(data))
              IN  IF accepted
                    THEN /\ storeIncomes' =
                              storeIncomes \cup {WithId(DocId(nextId), req.doc)}
                         /\ nextId' = nextId + 1
                         /\ activeView' = "Home"
                         /\ last' = Did(Call("addIncome", Null), <<req>>, TRUE,
                                        DocId(nextId), NoNotice)
                    ELSE /\ last' = Did(Call("addIncome", Null), <<req>>, FALSE, Null,
                                        "Failed to add income. Please try again.")
                         /\ UNCHANGED <<storeIncomes, nextId, activeView>>
         /\ UNCHANGED <<storeExpenses, storeTemplates>>

handleAddExpense(call, data) ==
  IF ~db \/ userId = Null
    THEN /\ last' = Did(call, <<>>, FALSE, Null, NoNotice)
         /\ UNCHANGED <<storeVars, activeView>>
    ELSE /\ Cardinality(storeExpenses) < MaxExpenses
         /\ nextId <= MaxDocs
         /\ \E accepted \in BOOLEAN :
              LET req == AddDoc(getExpenseCollectionPath(userId), Stored(data))
              IN  IF accepted
                    THEN /\ storeExpenses' =
                              storeExpenses \cup {WithId(DocId(nextId), req.doc)}
                         /\ nextId' = nextId + 1
                         /\ activeView' =
                              IF IsSet(data, "isGenerated") THEN activeView
                              ELSE "Home"
                         /\ last' = Did(call, <<req>>, TRUE, DocId(nextId), NoNotice)
                    ELSE /\ last' = Did(call, <<req>>, FALSE, Null,
                                        "Failed to add expense. Please try again.")
                         /\ UNCHANGED <<storeExpenses, nextId, activeView>>
         /\ UNCHANGED <<storeIncomes, storeTemplates>>

handleAddRecurringTemplate(data) ==
  IF ~db \/ userId = Null
    THEN /\ last' = Did(Call("addTemplate", Null), <<>>, FALSE, Null, NoNotice)
         /\ UNCHANGED <<storeVars, activeView>>
    ELSE /\ Cardinality(storeTemplates) < MaxTemplates
         /\ nextId <= MaxDocs
         /\ \E accepted \in BOOLEAN :
              LET day == data.date[3]
                  req == AddDoc(getRecurringTemplateCollectionPath(userId),
                                [name |-> data.name,
                                 amount |-> parseFloat(data.amount),
                                 category |-> data.category,
                                 frequency |-> data.frequency,
                                 dueDay |-> day,
                                 createdAt |-> now])
              IN  IF accepted
                    THEN /\ storeTemplates' =
                              storeTemplates \cup {WithId(DocId(nextId), req.doc)}
                         /\ nextId' = nextId + 1
                         /\ activeView' = "Recurring"
                         /\ last' = Did(Call("addTemplate", Null), <<req>>, TRUE,
                                        DocId(nextId), NoNotice)
                    ELSE /\ last' = Did(Call("addTemplate", Null), <<req>>, FALSE, Null,
                                        "Failed to add recurring bill. Please try again.")
                         /\ UNCHANGED <<storeTemplates, nextId, activeView>>
         /\ UNCHANGED <<storeIncomes, storeExpenses>>

\* (the guard as it would be if it read the store's collection
\* instead of the list of the latest render)
alreadyPaid_onStore(template) ==
  \E exp \in storeExpenses :
    /\ Get(exp, "recurringTemplateId") = template.id
    /\ formatMonthYear(exp.date) = formatMonthYear(now)

\* the guard of handleMarkPaid, on the expenses of the latest render
alreadyPaid(template) ==
  \E i \in 1..Len(expenses) :
    /\ Get(expenses[i], "recurringTemplateId") = template.id
    /\ formatMonthYear(expenses[i].date) = formatMonthYear(now)

\* the expense handleMarkPaid hands to handleAddExpense
PaymentOf(template, today, paidForMonthYear) ==
  [name |-> template.name,
   amount |-> Num(template.amount),
   date |-> IsoDate(today),
   category |-> template.category,
   isRecurring |-> TRUE,
   isGenerated |-> TRUE,
   recurringTemplateId |-> template.id,
   paidFor |-> paidForMonthYear]

\* (the handler as it would be with no return after the alert)
handleMarkPaid_noReturn(template) ==
  handleAddExpense(Call("markPaid", template.id),
                   PaymentOf(template, now, formatMonthYear(now)))

handleMarkPaid(template) ==
  LET today == now
      paidForMonthYear == formatMonthYear(today)
  IN  IF alreadyPaid(template)
        THEN /\ last' = Did(Call("markPaid", template.id), <<>>, FALSE, Null,
                            AlreadyPaidNotice)
             /\ UNCHANGED <<storeVars, activeView>>
        ELSE handleAddExpense(Call("markPaid", template.id),
                              PaymentOf(template, today, paidForMonthYear))

\* a delete that takes the expenses generated from a template with it
handleDelete_cascade(type, id, confirmed) ==
  IF ~db \/ userId = Null \/ id = Null \/ ~confirmed
    THEN /\ last' = Did(Call("delete", id), <<>>, FALSE, Null, NoNotice)
         /\ UNCHANGED <<storeVars, activeView>>
    ELSE \E accepted \in BOOLEAN :
           LET path == IF type = "income" THEN getIncomeCollectionPath(userId)
                       ELSE IF type = "expense"
                              THEN getExpenseCollectionPath(userId)
                              ELSE getRecurringTemplateCollectionPath(userId)
               req == DeleteDoc(path, id)
               Without(docs) == {d \in docs : d.id # id}
           IN  /\ UNCHANGED <<nextId, activeView>>
               /\ IF accepted
                    THEN /\ storeIncomes' =
                              IF path[3] = "incomes" THEN Without(storeIncomes)
                              ELSE storeIncomes
                         /\ storeExpenses' =
                              IF path[3] = "expenses" THEN Without(storeExpenses)
                              ELSE IF path[3] = "recurringTemplates"
                                THEN {e \in storeExpenses :
                                        Get(e, "recurringTemplateId") # id}
                              ELSE storeExpenses
                         /\ storeTemplates' =
                              IF path[3] = "recurringTemplates"
                                THEN Without(storeTemplates)
                              ELSE storeTemplates
                         /\ last' = Did(Call("delete", id), <<req>>, TRUE, Null, NoNotice)
                    ELSE /\ last' = Did(Call("delete", id), <<req>>, FALSE, Null,
                                        "Failed to delete. Please try again.")
                         /\ UNCHANGED <<storeIncomes, storeExpenses, storeTemplates>>

\* handleDelete: asks for confirmation, then deletes the one document id
\* of the collection of type
handleDelete(type, id, confirmed) ==
  IF ~db \/ userId = Null \/ id = Null \/ ~confirmed
    THEN /\ last' = Did(Call("delete", id), <<>>, FALSE, Null, NoNotice)
         /\ UNCHANGED <<storeVars, activeView>>
    ELSE \E accepted \in BOOLEAN :
           LET path == IF type = "income" THEN getIncomeCollectionPath(userId)
                       ELSE IF type = "expense"
                              THEN getExpenseCollectionPath(userId)
                              ELSE getRecurringTemplateCollectionPath(userId)
               req == DeleteDoc(path, id)
               Without(docs) == {d \in docs : d.id # id}
           IN  /\ UNCHANGED <<nextId, activeView>>
               /\ IF accepted
                    THEN /\ storeIncomes' =
                              IF path[3] = "incomes" THEN Without(storeIncomes)
                              ELSE storeIncomes
                         /\ storeExpenses' =
                              IF path[3] = "expenses" THEN Without(storeExpenses)
                              ELSE storeExpenses
                         /\ storeTemplates' =
                              IF path[3] = "recurringTemplates"
                                THEN Without(storeTemplates)
                              ELSE storeTemplates
                         /\ last' = Did(Call("delete", id), <<req>>, TRUE, Null, NoNotice)
                    ELSE /\ last' = Did(Call("delete", id), <<req>>, FALSE, Null,
                                        "Failed to delete. Please try again.")
                         /\ UNCHANGED <<storeIncomes, storeExpenses, storeTemplates>>

\* ------------------------------------------------------------ user actions
\* The user presses what the page shows.  A handler that sets activeView to
\* another view has the page rendered anew; an alert, a request to the store
\* and its answer do not.
RenderIfViewChanged ==
  /\ IF activeView' # activeView THEN Render ELSE UNCHANGED isPaid
  /\ UNCHANGED <<filteredTransactions, getPaidAmount>>

\* the navigation bar (and the back and add buttons of the views)
Navigate(view) ==
  /\ Rendered
  /\ activeView # view
  /\ activeView' = view
  /\ UNCHANGED <<envVars, now, authVars, subscribed, storeVars, localVars,
                 reportView, duesFilter, filteredTransactions, getPaidAmount>>
  /\ Render
  /\ last' = Idle

\* the device moves to, or is set to, another time zone: the Date getters
\* and toLocaleDateString read the zone at each call, the page stays as
\* rendered
ZoneChanged ==
  /\ \E zone \in ZoneOffsets \ {tz} : tz' = zone
  /\ UNCHANGED <<configured, now, authVars, subscribed, storeVars, localVars,
                 viewVars, pageVars>>
  /\ last' = Idle

\* (the submit handler as it would be if it checked the amount alone)
SubmitIncome_amountOnly(formData) ==
  /\ Rendered
  /\ activeView = "AddIncome"
  /\ IF IsEmpty(formData.amount.v)
       THEN /\ last' = Did(Call("addIncome", Null), <<>>, FALSE, Null, RequiredNotice)
            /\ UNCHANGED <<storeVars, activeView>>
       ELSE handleAddIncome(formData)
  /\ UNCHANGED <<envVars, now, authVars, subscribed, localVars, reportView,
                 duesFilter>>
  /\ RenderIfViewChanged

\* AddIncome.handleSubmit
SubmitIncome(formData) ==
  /\ Rendered
  /\ activeView = "AddIncome"
  /\ IF IsEmpty(formData.clientName) \/ IsEmpty(formData.amount.v)
       THEN /\ last' = Did(Call("addIncome", Null), <<>>, FALSE, Null, RequiredNotice)
            /\ UNCHANGED <<storeVars, activeView>>
       ELSE handleAddIncome(formData)
  /\ UNCHANGED <<envVars, now, authVars, subscribed, localVars, reportView,
                 duesFilter>>
  /\ RenderIfViewChanged

\* AddExpense.handleSubmit
SubmitExpense(formData) ==
  /\ Rendered
  /\ activeView = "AddExpense"
  /\ IF IsEmpty(formData.name) \/ IsEmpty(formData.amount.v)
       THEN /\ last' = Did(Call("addExpense", Null), <<>>, FALSE, Null, RequiredNotice)
            /\ UNCHANGED <<storeVars, activeView>>
       ELSE IF formData.isRecurring
              THEN handleAddRecurringTemplate(formData)
              ELSE handleAddExpense(Call("addExpense", Null), formData)
  /\ UNCHANGED <<envVars, now, authVars, subscribed, localVars, reportView,
                 duesFilter>>
  /\ RenderIfViewChanged

\* the "Mark Paid" button of a dashboard bill, the "Pay" button of a bill of
\* the recurring-bills view: shown for the bills the render found unpaid
MarkPaid(template) ==
  /\ template \in Elems(BillsOnPage)
  /\ template.id \notin isPaid
  /\ handleMarkPaid(template)
  /\ UNCHANGED <<envVars, now, authVars, subscribed, localVars, reportView,
                 duesFilter>>
  /\ RenderIfViewChanged

\* a history list that takes every record mark-paid did not generate for an
\* income
ReportsDelete_byGenerated(t, confirmed) ==
  LET isIncome == ~IsSet(t, "isGenerated")
  IN  /\ Rendered
      /\ activeView = "Reports"
      /\ t \in Elems(filteredTransactions.incomes)
                \cup Elems(filteredTransactions.expenses)
      /\ handleDelete(IF isIncome THEN "income" ELSE "expense", t.id, confirmed)
      /\ UNCHANGED <<envVars, now, authVars, subscribed, localVars,
                     reportView, duesFilter>>
      /\ RenderIfViewChanged

\* Reports, history list: the delete button of transaction t
ReportsDelete(t, confirmed) ==
  LET isIncome == Get(t, "clientName") \notin {Null, ""}
  IN  /\ Rendered
      /\ activeView = "Reports"
      /\ t \in Elems(filteredTransactions.incomes)
                \cup Elems(filteredTransactions.expenses)
      /\ handleDelete(IF isIncome THEN "income" ELSE "expense", t.id, confirmed)
      /\ UNCHANGED <<envVars, now, authVars, subscribed, localVars,
                     reportView, duesFilter>>
      /\ RenderIfViewChanged

\* RecurringBills: the delete button, shown for the bills the render found
\* paid
RecurringDelete(bill, confirmed) ==
  /\ activeView = "Recurring"
  /\ bill \in Elems(BillsOnPage)
  /\ bill.id \in isPaid
  /\ handleDelete("template", bill.id, confirmed)
  /\ UNCHANGED <<envVars, now, authVars, subscribed, localVars, reportView,
                 duesFilter>>
  /\ RenderIfViewChanged

\* Reports: the period toggle
SetReportView(view) ==
  /\ Rendered
  /\ activeView = "Reports"
  /\ reportView # view
  /\ reportView' = view
  /\ UNCHANGED <<envVars, now, authVars, subscribed, storeVars, localVars,
                 activeView, duesFilter, getPaidAmount>>
  /\ Recompute
  /\ Render
  /\ last' = Recomputed

\* Dashboard: the dues filter
SetDuesFilter(filter) ==
  /\ Rendered
  /\ activeView = "Home"
  /\ duesFilter # filter
  /\ duesFilter' = filter
  /\ UNCHANGED <<envVars, now, authVars, subscribed, storeVars, localVars,
                 activeView, reportView, filteredTransactions, getPaidAmount>>
  /\ Render
  /\ last' = Idle

\* -------------------------------------------------------------------- Next
Next ==
  \/ Tick
  \/ InitializeFirebase
  \/ \E user \in {Null, Uid} : AuthStateChanged(user)
  \/ SignInResolved
  \/ SignInRejected
  \/ SetupListeners
  \/ ExpenseSnapshot
  \/ RecurringSnapshot
  \/ \E view \in {"Home", "Recurring", "AddExpense"} : Navigate(view)
  \/ \E formData \in ExpenseForms : SubmitExpense(formData)
  \/ \E template \in Elems(recurringTemplates) : MarkPaid(template)
  \/ \E bill \in Elems(recurringTemplates), confirmed \in BOOLEAN :
        RecurringDelete(bill, confirmed)

\* the life of the expenses and the bills on a device that stays in its time
\* zone: start-up, the listeners, the navigation, the add-expense form,
\* mark-paid and delete, around midnight of 1 Nov 2025;
\* the incomes and the report period are the matter of SpecReport
Spec == Init /\ [][Next]_vars

\* ----------------------------------------------------------------- reports
\* The report is a function of the local lists, the period and the clock.
\* SpecReport starts with the app signed in and listening, the store holding
\* records entered through the forms with the dates of ReportDates and the
\* first snapshots still to come, and lets the clock run from 00:00 UTC of
\* Fri 31 Oct 2025 until the month has ended in every zone, and the period
\* toggle be used.

\* at most this many records in each list
MaxReportDocs == 1

ReportFirstInstant == DayIndex(9, 31) * TicksPerDay
ReportLastInstant == DayIndex(10, 1) * TicksPerDay + 1

\* Sun 26 Oct, Mon 27 Oct, Fri 31 Oct, Sat 1 Nov, Sun 2 Nov, Mon 3 Nov
ReportDates ==
  {<<2025, 10, 26>>, <<2025, 10, 27>>, <<2025, 10, 31>>,
   <<2025, 11, 1>>, <<2025, 11, 2>>, <<2025, 11, 3>>}

\* the document the add-income form leaves in the store for date d
IncomeDated(d) ==
  WithId(DocId(d[2] * 100 + d[3]),
         Stored([clientName |-> "Acme", amount |-> Text("250"), date |-> d,
                 type |-> "RETAINER"]))

\* the document the add-expense form leaves in the store for date d
ExpenseDated(d) ==
  WithId(DocId(5000 + d[2] * 100 + d[3]),
         Stored([name |-> "Gym", amount |-> Text("100"), date |-> d,
                 category |-> "Groceries", isRecurring |-> FALSE,
                 frequency |-> "Monthly"]))

UpTo(n, docs) == {S \in SUBSET docs : Cardinality(S) <= n}

InitReport ==
  /\ tz \in ZoneOffsets
  /\ now = ReportFirstInstant
  /\ configured = TRUE
  /\ authPc = "ready"
  /\ db = TRUE
  /\ userId = Uid
  /\ isAuthReady = TRUE
  /\ isLoading = FALSE
  /\ error = ""
  /\ subscribed = Attached(userId)
  /\ storeIncomes \in UpTo(MaxReportDocs, {IncomeDated(d) : d \in ReportDates})
  /\ storeExpenses \in UpTo(MaxReportDocs, {ExpenseDated(d) : d \in ReportDates})
  /\ storeTemplates = SeedTemplates
  /\ nextId = Cardinality(SeedTemplates) + 1
  /\ incomes = <<>>
  /\ expenses = <<>>
  /\ recurringTemplates = <<>>
  /\ activeView = "Reports"
  /\ reportView = "Monthly"
  /\ duesFilter = "Monthly"
  /\ filteredTransactions = filteredTransactionsOf(reportView, incomes, expenses)
  /\ getPaidAmount = getPaidAmountOf(expenses)
  /\ isPaid = PaidShown(Rendered, activeView, duesFilter, recurringTemplates,
                        expenses)
  /\ last = Idle

ReportTick == TickUntil(ReportLastInstant)

NextReport ==
  \/ ReportTick
  \/ IncomeSnapshot
  \/ ExpenseSnapshot
  \/ RecurringSnapshot
  \/ \E view \in Frequencies : SetReportView(view)

SpecReport == InitReport /\ [][NextReport]_vars

\* ------------------------------------------------------------------ ledger
\* The entry of incomes and expenses and their removal from the history list
\* of the report: the app signed in and listening, the user moving between
\* the views, filling the forms and deleting what the report lists.
InitLedger ==
  /\ tz \in ZoneOffsets
  /\ now = FirstInstant
  /\ configured = TRUE
  /\ authPc = "ready"
  /\ db = TRUE
  /\ userId = Uid
  /\ isAuthReady = TRUE
  /\ isLoading = FALSE
  /\ error = ""
  /\ subscribed = Attached(userId)
  /\ storeIncomes = {}
  /\ storeExpenses = {}
  /\ storeTemplates = SeedTemplates
  /\ nextId = Cardinality(SeedTemplates) + 1
  /\ incomes = <<>>
  /\ expenses = <<>>
  /\ recurringTemplates = <<>>
  /\ activeView = "Home"
  /\ reportView = "Monthly"
  /\ duesFilter = "Monthly"
  /\ filteredTransactions = filteredTransactionsOf(reportView, incomes, expenses)
  /\ getPaidAmount = getPaidAmountOf(expenses)
  /\ isPaid = PaidShown(Rendered, activeView, duesFilter, recurringTemplates,
                        expenses)
  /\ last = Idle

\* the clock of the ledger runs to 00:00 UTC of 1 Nov 2025
LedgerLastInstant == DayIndex(10, 1) * TicksPerDay

LedgerTick == TickUntil(LedgerLastInstant)

NextLedger ==
  \/ LedgerTick
  \/ IncomeSnapshot
  \/ ExpenseSnapshot
  \/ RecurringSnapshot
  \/ \E view \in Views : Navigate(view)
  \/ \E formData \in IncomeForms : SubmitIncome(formData)
  \/ \E formData \in ExpenseForms : SubmitExpense(formData)
  \/ \E t \in Elems(incomes) \cup Elems(expenses), confirmed \in BOOLEAN :
        ReportsDelete(t, confirmed)

SpecLedger == InitLedger /\ [][NextLedger]_vars

\* ------------------------------------------------------------------ travel
\* The bills on a device whose time zone changes while the page is shown:
\* what the page shows was computed in the zone of the render, the handler
\* reads the zone of the click.
NextTravel ==
  \/ Tick
  \/ ZoneChanged
  \/ ExpenseSnapshot
  \/ RecurringSnapshot
  \/ \E view \in {"Home", "Recurring"} : Navigate(view)
  \/ \E template \in Elems(recurringTemplates) : MarkPaid(template)

SpecTravel == InitLedger /\ [][NextTravel]_vars

\* -------------------------------------------------------------------- dues
\* The figures of the dashboard's dues card: the app signed in and
\* listening, the store holding templates of several frequencies set up in
\* earlier sessions, the user switching the dues filter, paying bills and
\* deleting paid ones.

\* the templates of earlier sessions: a monthly and a weekly bill, and one
\* saved without a frequency field (filteredDues reads it as Monthly)
DuesTemplates ==
  SeedTemplates
  \cup
  { [id |-> DocId(102), name |-> "Gym", amount |-> 100,
     category |-> "Subscription", frequency |-> "Weekly", dueDay |-> 6,
     createdAt |-> ParseIsoDate(<<2025, 10, 6>>)],
    [id |-> DocId(103), name |-> "Net", amount |-> 100,
     category |-> "Utilities", dueDay |-> 7,
     createdAt |-> ParseIsoDate(<<2025, 10, 7>>)] }

InitDues ==
  /\ tz \in ZoneOffsets
  /\ now = FirstInstant
  /\ configured = TRUE
  /\ authPc = "ready"
  /\ db = TRUE
  /\ userId = Uid
  /\ isAuthReady = TRUE
  /\ isLoading = FALSE
  /\ error = ""
  /\ subscribed = Attached(userId)
  /\ storeIncomes = {}
  /\ storeExpenses = {}
  /\ storeTemplates \in (SUBSET DuesTemplates) \ {{}}
  /\ nextId = Cardinality(SeedTemplates) + 1
  /\ incomes = <<>>
  /\ expenses = <<>>
  /\ recurringTemplates = <<>>
  /\ activeView = "Home"
  /\ reportView = "Monthly"
  /\ duesFilter = "Monthly"
  /\ filteredTransactions = filteredTransactionsOf(reportView, incomes, expenses)
  /\ getPaidAmount = getPaidAmountOf(expenses)
  /\ isPaid = PaidShown(Rendered, activeView, duesFilter, recurringTemplates,
                        expenses)
  /\ last = Idle

\* the clock of the dues card runs to 00:00 UTC of 1 Nov 2025: the month
\* ends on the way in the zone of UTC and has ended in the zone east of it
DuesLastInstant == DayIndex(10, 1) * TicksPerDay

DuesTick == TickUntil(DuesLastInstant)

NextDues ==
  \/ DuesTick
  \/ ExpenseSnapshot
  \/ RecurringSnapshot
  \/ \E view \in {"Home", "Recurring"} : Navigate(view)
  \/ \E filter \in Frequencies : SetDuesFilter(filter)
  \/ \E template \in Elems(recurringTemplates) : MarkPaid(template)
  \/ \E bill \in Elems(recurringTemplates), confirmed \in BOOLEAN :
        RecurringDelete(bill, confirmed)

SpecDues == InitDues /\ [][NextDues]_vars

\* --------------------------------------------------------------- lifecycle
\* The whole life of App: start-up, the listeners, incomes entered, bills
\* paid and deleted, and the unmount that runs the cleanup of the
\* data-fetching effect.
NextLifecycle ==
  \/ Tick
  \/ InitializeFirebase
  \/ \E user \in {Null, Uid} : AuthStateChanged(user)
  \/ SignInResolved
  \/ SignInRejected
  \/ SetupListeners
  \/ CleanupListeners
  \/ IncomeSnapshot
  \/ ExpenseSnapshot
  \/ RecurringSnapshot
  \/ \E view \in {"Home", "AddIncome", "Recurring"} : Navigate(view)
  \/ \E formData \in IncomeForms : SubmitIncome(formData)
  \/ \E template \in Elems(recurringTemplates) : MarkPaid(template)
  \/ \E bill \in Elems(recurringTemplates), confirmed \in BOOLEAN :
        RecurringDelete(bill, confirmed)

SpecLifecycle == Init /\ [][NextLifecycle]_vars

\* The start-up under its scheduling: React runs the initialization effect
\* after the first render, the auth library delivers the auth state to the
\* callback registered with onAuthStateChanged, and the promise of
\* signInAnonymously settles.
StartupFairness ==
  /\ WF_vars(InitializeFirebase)
  /\ WF_vars(\E user \in {Null, Uid} : AuthStateChanged(user))
  /\ WF_vars(SignInResolved \/ SignInRejected)

SpecStartup == Init /\ [][NextLifecycle]_vars /\ StartupFairness

\* ----------------------------------------------------------------- amounts
\* The entry of amounts: the app signed in and listening, the forms filled
\* with the amounts of IncomeForms and ExpenseForms or with a negative
\* amount, the bills of the templates paid.
NextAmounts ==
  \/ IncomeSnapshot
  \/ ExpenseSnapshot
  \/ RecurringSnapshot
  \/ \E view \in Views : Navigate(view)
  \/ \E formData \in IncomeForms \cup NegativeIncomeForms :
        SubmitIncome(formData)
  \/ \E formData \in ExpenseForms \cup NegativeExpenseForms :
        SubmitExpense(formData)
  \/ \E template \in Elems(recurringTemplates) : MarkPaid(template)

SpecAmounts == InitLedger /\ [][NextAmounts]_vars

\* ----------------------------------------------------------------- history
\* The records the user can create and what the history list of the report
\* does with them: the app signed in and listening, incomes and expenses
\* entered through the forms, the bills of the templates paid, the listed
\* records deleted.
NextHistory ==
  \/ IncomeSnapshot
  \/ ExpenseSnapshot
  \/ RecurringSnapshot
  \/ \E view \in {"Home", "Reports", "AddIncome", "AddExpense"} :
        Navigate(view)
  \/ \E formData \in {f \in IncomeForms : ~IsEmpty(f.amount.v)} :
        SubmitIncome(formData)
  \/ \E formData \in {f \in ExpenseForms :
                         ~IsEmpty(f.amount.v) /\ ~f.isRecurring} :
        SubmitExpense(formData)
  \/ \E template \in Elems(recurringTemplates) : MarkPaid(template)
  \/ \E t \in Elems(incomes) \cup Elems(expenses), confirmed \in BOOLEAN :
        ReportsDelete(t, confirmed)

SpecHistory == InitLedger /\ [][NextHistory]_vars

\* ================================================================== claims
\* the month-year label of the current instant
CurrentLabel == formatMonthYear(now)

\* expense e is linked to template id
LinkedTo(e, id) == "recurringTemplateId" \in DOMAIN e /\ e.recurringTemplateId = id

\* expense e was created by mark-paid
Generated(e) == IsSet(e, "isGenerated")

\* the local expense list holds a record linked to template id whose date
\* has the month-year label of the current instant
LocalPaid(id) ==
  \E e \in Elems(expenses) :
    LinkedTo(e, id) /\ formatMonthYear(e.date) = CurrentLabel

\* the local template with document id
TemplateOf(id) == CHOOSE t \in Elems(recurringTemplates) : t.id = id

\* C1: in the expense collection there is at most one generated expense per
\* template and month-year label of its date.
C1_OneGeneratedPerTemplateMonth ==
  \A e1, e2 \in storeExpenses :
    ( /\ Generated(e1) /\ Generated(e2)
      /\ e1.recurringTemplateId = e2.recurringTemplateId
      /\ formatMonthYear(e1.date) = formatMonthYear(e2.date) )
    => e1 = e2

\* C2: a mark-paid call for a template for which an earlier mark-paid of the
\* same calendar month has inserted its record (the record is in the local
\* list) fails with the duplicate-payment notice and sends no insert.
C2_SecondMarkPaidFails ==
  ( /\ last.op = "markPaid"
    /\ \E e \in Elems(expenses) :
         Generated(e) /\ LinkedTo(e, last.arg) /\ e.paidFor = CurrentLabel )
  => (last.reqs = <<>> /\ last.notice = AlreadyPaidNotice)

\* C3: once the record a mark-paid for template T inserted in the current
\* month is in the local list, the is-paid check for T and the current
\* month-year label is true, whatever else the list holds.
C3_PaidAfterMarkPaid ==
  \A e \in Elems(expenses) :
    (Generated(e) /\ e.paidFor = CurrentLabel)
    => alreadyPaid([id |-> e.recurringTemplateId])

\* C4: mark-paid decides on the local expense list alone: it sends its insert
\* exactly when that list holds no record of the template for the current
\* month, whatever the store holds (the witness is the race: a second insert
\* for a template and month the store already holds).
C4_GuardReadsLocalSnapshot ==
  last.op = "markPaid" => ((Len(last.reqs) = 1) <=> ~LocalPaid(last.arg))

\* two generated expenses of one template and one month in the store, the
\* second inserted by the mark-paid just run, neither yet in the local list
C4_RaceWitness ==
  /\ last.op = "markPaid" /\ last.ok
  /\ \E e1, e2 \in storeExpenses :
       /\ e1 # e2 /\ e2.id = last.newId
       /\ Generated(e1) /\ Generated(e2)
       /\ LinkedTo(e1, last.arg) /\ LinkedTo(e2, last.arg)
       /\ e1.paidFor = CurrentLabel /\ e2.paidFor = CurrentLabel
       /\ formatMonthYear(e1.date) = CurrentLabel
       /\ formatMonthYear(e2.date) = CurrentLabel
       /\ e1 \notin Elems(expenses) /\ e2 \notin Elems(expenses)

\* C5: a mark-paid call made while the local list holds a record of the
\* template for the current month sends nothing to the store, leaves the
\* store, the local lists and the active view as they are and shows the
\* duplicate-payment notice.
C5_DuplicateLeavesStateAlone ==
  [][ (last'.op = "markPaid" /\ LocalPaid(last'.arg))
      => /\ last'.reqs = <<>>
         /\ last'.notice = AlreadyPaidNotice
         /\ UNCHANGED <<storeVars, localVars, activeView>> ]_vars

\* the duplicate-payment notice has just been shown
C5_Witness ==
  /\ last.op = "markPaid" /\ LocalPaid(last.arg)
  /\ last.notice = AlreadyPaidNotice

\* C6: paidFor of every expense created by mark-paid is the month-year label
\* of the record's own date.
C6_PaidForIsLabelOfDate ==
  \A e \in storeExpenses :
    Generated(e) => e.paidFor = formatMonthYear(e.date)

\* C7: a mark-paid call that passes its guard submits exactly one expense
\* record, with the template's name, amount and category, isRecurring and
\* isGenerated true, the template's id and today's date, and creates or
\* changes no income record and no template.
C7_MarkPaidRecord ==
  [][ (last'.op = "markPaid" /\ ~LocalPaid(last'.arg))
      => /\ Len(last'.reqs) = 1
         /\ LET req == last'.reqs[1]
                T == TemplateOf(last'.arg)
            IN  /\ req.kind = "addDoc"
                /\ req.path = getExpenseCollectionPath(userId)
                /\ req.doc.name = T.name
                /\ req.doc.amount = T.amount
                /\ req.doc.category = T.category
                /\ req.doc.isRecurring = TRUE
                /\ req.doc.isGenerated = TRUE
                /\ req.doc.recurringTemplateId = T.id
                /\ req.doc.date \div TicksPerDay = LocalDay(now)
         /\ UNCHANGED <<storeIncomes, storeTemplates>> ]_vars

\* C8: the is-paid check of a bill is true iff some local expense is linked
\* to the bill and dated in the current month, and the mark-paid guard, the
\* dashboard's due list and the recurring-bills list agree on it.
C8_IsPaidAgrees ==
  \A bill \in Elems(recurringTemplates) :
    /\ alreadyPaid(bill) <=> LocalPaid(bill.id)
    /\ DashboardIsPaid(expenses, bill) <=> LocalPaid(bill.id)
    /\ RecurringIsPaid(expenses, bill) <=> LocalPaid(bill.id)

\* one listed bill is paid for the current month and another is not
C8_Witness ==
  \E b1, b2 \in Elems(recurringTemplates) :
    /\ alreadyPaid(b1) /\ DashboardIsPaid(expenses, b1)
    /\ RecurringIsPaid(expenses, b1)
    /\ ~alreadyPaid(b2) /\ ~DashboardIsPaid(expenses, b2)
    /\ ~RecurringIsPaid(expenses, b2)

\* the calendar date a record is dated: the date typed in the form, kept as
\* 00:00 UTC of that day
CalendarDay(x) == x.date \div TicksPerDay

\* C9: the Monthly report, as computed at an instant now, holds exactly the
\* records dated from the first to the last calendar day of now's month.
C9_MonthlyReportIsTheMonth ==
  (last.op = "memo" /\ reportView = "Monthly") =>
    LET InMonth(x) == MonthOfDay(CalendarDay(x)) = getMonth(now)
    IN  /\ filteredTransactions.incomes = SelectSeq(incomes, InMonth)
        /\ filteredTransactions.expenses = SelectSeq(expenses, InMonth)

\* C10: the Weekly report, as computed at an instant now, holds exactly the
\* records dated from the Monday of now's week to the Sunday that ends it,
\* Sunday being the week's seventh day.
C10_WeeklyReportIsTheWeek ==
  (last.op = "memo" /\ reportView = "Weekly") =>
    LET monday == LocalDay(now) - ((getDay(now) + 6) % 7)
        InWeek(x) == CalendarDay(x) \in monday..(monday + 6)
    IN  /\ filteredTransactions.incomes = SelectSeq(incomes, InWeek)
        /\ filteredTransactions.expenses = SelectSeq(expenses, InWeek)

\* C11: the Daily report, as computed at an instant now, holds exactly the
\* records whose date lies from 00:00:00.000 to 23:59:59.999 of now's day,
\* and so every record entered with today's date.
C11_DailyReportIsToday ==
  (last.op = "memo" /\ reportView = "Daily") =>
    LET InDay(x) == x.date >= StartOfDay(now) /\ x.date <= EndOfDay(now)
        Today(x) == CalendarDay(x) = LocalDay(now)
    IN  /\ filteredTransactions.incomes = SelectSeq(incomes, InDay)
        /\ filteredTransactions.expenses = SelectSeq(expenses, InDay)
        /\ \A x \in Elems(incomes) : Today(x) => InDay(x)
        /\ \A x \in Elems(expenses) : Today(x) => InDay(x)

RECURSIVE SumTo(_, _)
\* the sum of the amounts of the first n records of list
SumTo(list, n) == IF n = 0 THEN 0 ELSE SumTo(list, n - 1) + list[n].amount

\* the sum of the amounts of the records of list
Total(list) == SumTo(list, Len(list))

\* C12: for every report period and every pair of record lists, totalIncome
\* is the sum of the amounts of the incomes of the period subset,
\* totalExpense that of its expenses, and netCashflow is totalIncome minus
\* totalExpense, negative when the expenses exceed the incomes.
C12_TotalsOfThePeriod ==
  /\ filteredTransactions.totalIncome = Total(filteredTransactions.incomes)
  /\ filteredTransactions.totalExpense = Total(filteredTransactions.expenses)
  /\ filteredTransactions.netCashflow =
       Total(filteredTransactions.incomes) - Total(filteredTransactions.expenses)
  /\ last.op = "memo" =>
       LET range == ReportRange(reportView)
           InPeriod(x) == x.date >= range.start /\ x.date <= range.end
       IN  /\ filteredTransactions.incomes = SelectSeq(incomes, InPeriod)
           /\ filteredTransactions.expenses = SelectSeq(expenses, InPeriod)

\* the report of a period that holds an expense and leaves out the only
\* income: the net cash flow is negative
C12_Witness ==
  /\ last.op = "memo"
  /\ incomes # <<>> /\ filteredTransactions.incomes = <<>>
  /\ filteredTransactions.expenses # <<>>
  /\ filteredTransactions.totalIncome = 0
  /\ filteredTransactions.netCashflow < 0

\* number q is the quotient a / b
IsQuotient(q, a, b) == q.den > 0 /\ q.num * b = a * q.den

\* C13: average income is the sum of the amounts of all income records
\* divided by their count, whatever their dates and the report period, and 0
\* when there is no income record; average expense likewise over all expense
\* records.
C13_LifetimeAverages ==
  /\ IF incomes = <<>>
       THEN IsQuotient(avgMonthlyIncome(incomes), 0, 1)
       ELSE IsQuotient(avgMonthlyIncome(incomes), Total(incomes), Len(incomes))
  /\ IF expenses = <<>>
       THEN IsQuotient(avgMonthlyExpense(expenses), 0, 1)
       ELSE IsQuotient(avgMonthlyExpense(expenses), Total(expenses), Len(expenses))

\* two incomes, one of them outside the period of the report, and no expense
C13_Witness ==
  /\ Len(incomes) = 2
  /\ Len(filteredTransactions.incomes) < 2
  /\ IsQuotient(avgMonthlyIncome(incomes), 500, 2)
  /\ expenses = <<>>
  /\ avgMonthlyExpense(expenses) = Number(0)

\* the frequency of template t, a template with no frequency being Monthly
FrequencyOf(t) == IF "frequency" \in DOMAIN t THEN t.frequency ELSE "Monthly"

\* the templates of list templates whose frequency is F
OfFrequency(templates, F) == {t \in Elems(templates) : FrequencyOf(t) = F}

RECURSIVE SumOfSet(_)
\* the sum of the amounts of a set of documents
SumOfSet(docs) ==
  IF docs = {} THEN 0
  ELSE LET d == CHOOSE x \in docs : TRUE
       IN  d.amount + SumOfSet(docs \ {d})

\* C14: total dues is the sum of the amounts of exactly the templates whose
\* frequency is the selected filter, a template with no frequency counting
\* as Monthly, and a step that adds or removes only templates of other
\* frequencies leaves the total for that filter as it is.
C14_TotalDuesOfFilter ==
  [][ /\ totalMonthlyDues' = SumOfSet(OfFrequency(recurringTemplates', duesFilter'))
      /\ ( /\ duesFilter' = duesFilter
           /\ OfFrequency(recurringTemplates', duesFilter)
                = OfFrequency(recurringTemplates, duesFilter) )
         => totalMonthlyDues' = totalMonthlyDues ]_vars

\* the Monthly total counts a template with no frequency next to a monthly
\* one, and a weekly template is listed that it does not count
C14_Witness ==
  /\ duesFilter = "Monthly"
  /\ \E t1, t2, t3 \in Elems(recurringTemplates) :
       /\ "frequency" \notin DOMAIN t1
       /\ Get(t2, "frequency") = "Monthly"
       /\ Get(t3, "frequency") = "Weekly"
  /\ totalMonthlyDues = 350

\* the expenses of list exps that carry a recurringTemplateId and whose date
\* has the month-year label of the current instant
PaidThisMonth(exps) ==
  {e \in Elems(exps) :
     /\ "recurringTemplateId" \in DOMAIN e
     /\ formatMonthYear(e.date) = CurrentLabel}

\* C15: paid amount, computed when the expense list changes, is the sum of
\* the amounts of all expenses that carry a recurringTemplateId and are
\* dated in the current month-year, whatever the frequency of the linked
\* template and whether or not it still exists; a change of the dues filter
\* leaves it as it is.
C15_PaidAmountOfTheMonth ==
  [][ /\ (expenses' # expenses /\ now' = now /\ tz' = tz)
           => getPaidAmount' = SumOfSet(PaidThisMonth(expenses'))
      /\ duesFilter' # duesFilter => getPaidAmount' = getPaidAmount ]_vars

\* paid amount counts the payment of a weekly bill and the payment of a
\* bill that has been deleted, with the filter on Daily
C15_Witness ==
  /\ duesFilter = "Daily"
  /\ \E e1, e2 \in PaidThisMonth(expenses) :
       /\ \E t \in Elems(recurringTemplates) :
            t.id = e1.recurringTemplateId /\ Get(t, "frequency") = "Weekly"
       /\ \A t \in Elems(recurringTemplates) : t.id # e2.recurringTemplateId
       /\ getPaidAmount = e1.amount + e2.amount

\* total dues for the selected filter
DuesOfFilter == SumOfSet(OfFrequency(recurringTemplates, duesFilter))

\* C16: in every state, remaining is total dues for the selected filter
\* minus paid amount, with no clamping: it is negative whenever paid amount
\* exceeds the filtered total.
C16_RemainingUnclamped ==
  /\ remainingToPay = DuesOfFilter - getPaidAmount
  /\ getPaidAmount > DuesOfFilter => remainingToPay < 0

\* more has been paid this month than the selected filter totals
C16_Witness ==
  /\ getPaidAmount > DuesOfFilter
  /\ DuesOfFilter > 0
  /\ remainingToPay < 0

\* C17: payment progress is paid amount divided by total dues times 100 when
\* total dues is greater than 0, and 0 when total dues is 0, even if paid
\* amount is positive; it is not clamped and exceeds 100 when paid amount
\* exceeds the filtered total.
C17_ProgressUnclamped ==
  /\ IF DuesOfFilter > 0
       THEN IsQuotient(paymentProgress, getPaidAmount * 100, DuesOfFilter)
       ELSE IsQuotient(paymentProgress, 0, 1)
  /\ (DuesOfFilter > 0 /\ getPaidAmount > DuesOfFilter)
       => paymentProgress.num > 100 * paymentProgress.den

\* the progress is 250: a payment of 250 against weekly dues of 100
C17_Witness ==
  /\ DuesOfFilter = 100
  /\ getPaidAmount = 250
  /\ IsQuotient(paymentProgress, 250, 1)

\* C18: with a single Monthly template T and the Monthly filter, the
\* dashboard shows total dues T.amount, paid 0, remaining T.amount and
\* progress 0 while there is no expense; once mark-paid(T) has succeeded in
\* the current month and its snapshot has been delivered, it shows paid
\* T.amount, remaining 0 and progress 100, and a further mark-paid(T) fails.
C18_MarkPaidOnDashboard ==
  ( /\ Len(recurringTemplates) = 1
    /\ FrequencyOf(recurringTemplates[1]) = "Monthly"
    /\ duesFilter = "Monthly" )
  => LET T == recurringTemplates[1]
     IN  /\ expenses = <<>>
              => /\ totalMonthlyDues = T.amount
                 /\ getPaidAmount = 0
                 /\ remainingToPay = T.amount
                 /\ IsQuotient(paymentProgress, 0, 1)
         /\ ( /\ last.op = "memo"
              /\ Len(expenses) = 1
              /\ Generated(expenses[1])
              /\ LinkedTo(expenses[1], T.id)
              /\ expenses[1].paidFor = CurrentLabel )
              => /\ getPaidAmount = T.amount
                 /\ remainingToPay = 0
                 /\ IsQuotient(paymentProgress, 100, 1)
                 /\ alreadyPaid(T)

\* the alert each handler shows when the store rejects its request
FailureNotice ==
  [op \in {"addIncome", "addExpense", "markPaid", "addTemplate", "delete"} |->
     IF op = "addIncome" THEN "Failed to add income. Please try again."
     ELSE IF op \in {"addExpense", "markPaid"}
       THEN "Failed to add expense. Please try again."
     ELSE IF op = "addTemplate"
       THEN "Failed to add recurring bill. Please try again."
     ELSE "Failed to delete. Please try again."]

\* C19: when the store rejects an insert or a delete, the handler shows its
\* failure alert, leaves the local income, expense and template lists and
\* the active view (and the store) as they were, and has sent that one
\* request only.
C19_RejectedWriteLeavesStateAlone ==
  [][ (last'.reqs # <<>> /\ ~last'.ok)
      => /\ last'.notice = FailureNotice[last'.op]
         /\ Len(last'.reqs) = 1
         /\ UNCHANGED <<localVars, activeView, storeVars>> ]_vars

\* the store has just rejected the deletion of a listed record
C19_Witness ==
  /\ last.op = "delete" /\ ~last.ok
  /\ Len(last.reqs) = 1 /\ last.reqs[1].kind = "deleteDoc"
  /\ last.notice = "Failed to delete. Please try again."
  /\ \E d \in storeIncomes \cup storeExpenses : d.id = last.arg
  /\ activeView = "Reports"

\* every variable of the application but the trace of the handler
appState ==
  <<envVars, now, authVars, subscribed, storeVars, localVars, viewVars,
    pageVars>>

\* C20: submitting the add-income form with an empty client name or an empty
\* amount, or the add-expense form with an empty name or an empty amount,
\* sends nothing to the store and changes no state of the application.
C20_EmptyFieldsSendNothing ==
  [][ /\ last'.op = "addIncome" =>
           \A formData \in IncomeForms :
             ( /\ IsEmpty(formData.clientName) \/ IsEmpty(formData.amount.v)
               /\ SubmitIncome(formData) )
             => (last'.reqs = <<>> /\ UNCHANGED appState)
      /\ last'.op \in {"addExpense", "addTemplate"} =>
           \A formData \in ExpenseForms :
             ( /\ IsEmpty(formData.name) \/ IsEmpty(formData.amount.v)
               /\ SubmitExpense(formData) )
             => (last'.reqs = <<>> /\ UNCHANGED appState) ]_vars

\* the add-expense form has just been submitted with an empty field
C20_Witness ==
  /\ last.op = "addExpense"
  /\ last.notice = RequiredNotice
  /\ last.reqs = <<>>
  /\ activeView = "AddExpense"

\* ------------------------------------------------------------- the start-up
ConfigMissingMessage ==
  "Firebase configuration is missing. Please check your .env file."

\* C21: when the store configuration is missing at startup, the application
\* ends in the error state with loading finished, never opens a subscription
\* and never sends an insert or a delete to the store.
C21_MissingConfigIsFatal ==
  ~configured
    => /\ \A l \in Listeners : subscribed[l].state = "none"
       /\ last.reqs = <<>>
       /\ ~db /\ ~isAuthReady
       /\ storeIncomes = {} /\ storeExpenses = {}
       /\ storeTemplates = SeedTemplates
       /\ authPc # "start"
            => /\ error = ConfigMissingMessage
               /\ ~isLoading
               /\ authPc = "failed"

\* the configuration was missing, the initialization has failed, and the
\* clock has moved on since
C21_Witness ==
  /\ ~configured
  /\ authPc = "failed"
  /\ error = ConfigMissingMessage
  /\ ~isLoading
  /\ now = LastInstant

\* the cleanup of the data-fetching effect has run
TornDown == \E l \in Listeners : subscribed[l].state = "closed"

\* C22: once the data-fetching effect is torn down, the income, the expense
\* and the template listener are all unsubscribed, running the teardown
\* again changes nothing, and no later snapshot changes the local income,
\* expense or template list.
C22_TeardownStopsSnapshots ==
  [][ TornDown'
      => /\ \A l \in Listeners : subscribed'[l].state = "closed"
         /\ Cleanup(subscribed') = subscribed'
         /\ TornDown => UNCHANGED <<subscribed, localVars>> ]_vars

\* the listeners are detached while the store holds an expense and an income
\* that no snapshot has delivered, and the clock has moved on since
C22_Witness ==
  /\ \A l \in Listeners : subscribed[l].state = "closed"
  /\ storeExpenses # {} /\ expenses = <<>>
  /\ storeIncomes # {} /\ incomes = <<>>
  /\ recurringTemplates # <<>>
  /\ now = LastInstant

\* ------------------------------------------------------------ the listeners
\* list holds exactly the documents of docs, each once
HoldsExactly(list, docs) ==
  /\ Elems(list) = docs
  /\ Len(list) = Cardinality(docs)

\* C23: each snapshot delivery replaces the local list of its collection
\* wholesale: afterwards the list holds exactly the delivered records (the
\* documents of the collection) in the delivered order (of the query), with
\* nothing carried over, and the other two local lists are unchanged.
C23_SnapshotReplacesList ==
  [][ /\ incomes' # incomes
        => /\ HoldsExactly(incomes', storeIncomes)
           /\ \A i, j \in 1..Len(incomes') :
                i < j => incomes'[i].date >= incomes'[j].date
           /\ UNCHANGED <<expenses, recurringTemplates, storeVars>>
      /\ expenses' # expenses
        => /\ HoldsExactly(expenses', storeExpenses)
           /\ \A i, j \in 1..Len(expenses') :
                i < j => expenses'[i].date >= expenses'[j].date
           /\ UNCHANGED <<incomes, recurringTemplates, storeVars>>
      /\ recurringTemplates' # recurringTemplates
        => /\ HoldsExactly(recurringTemplates', storeTemplates)
           /\ UNCHANGED <<incomes, expenses, storeVars>> ]_vars

\* a snapshot has just been delivered after a record entered through a form
\* was deleted: the deleted record is in no list, the expense list holds the
\* one record of the store
C23_Witness ==
  /\ last.op = "memo"
  /\ nextId = Cardinality(SeedTemplates) + 3
  /\ storeTemplates = SeedTemplates
  /\ storeIncomes = {} /\ incomes = <<>>
  /\ Len(expenses) = 1 /\ Elems(expenses) = storeExpenses
  /\ Len(filteredTransactions.expenses) = 1
  /\ recurringTemplates # <<>>

\* ---------------------------------------------------------------- templates
\* C24: every expense record with a recurringTemplateId references a
\* template that was in the store at the moment the expense was inserted,
\* also when the template was deleted after the view last rendered it and
\* before mark-paid is invoked.
C24_LinkedTemplateExisted ==
  [][ \A e \in storeExpenses' \ storeExpenses :
        Get(e, "recurringTemplateId") # Null
          => \E t \in storeTemplates : t.id = e.recurringTemplateId ]_vars

\* C25: deleting a template removes only that template document: every
\* expense record, those linked to the deleted template included, and every
\* income record stays in the store unchanged.
C25_TemplateDeleteDoesNotCascade ==
  [][ ( /\ last'.op = "delete" /\ last'.ok
        /\ \E t \in storeTemplates : t.id = last'.arg )
      => /\ storeTemplates' = {t \in storeTemplates : t.id # last'.arg}
         /\ storeExpenses' = storeExpenses
         /\ storeIncomes' = storeIncomes ]_vars

\* a template has just been deleted; the store still holds the expense
\* generated from it, and an income
C25_Witness ==
  /\ last.op = "delete" /\ last.ok
  /\ \A t \in storeTemplates : t.id # last.arg
  /\ \E e \in storeExpenses : LinkedTo(e, last.arg)
  /\ storeIncomes # {}

\* ------------------------------------------------------------------ amounts
\* C26: every income record, expense record and template the application
\* writes to the store has a non-negative numeric amount, for every form
\* input that passes the submit validation.
C26_AmountsNonNegative ==
  \A d \in storeIncomes \cup storeExpenses \cup storeTemplates :
    d.amount \in Nat

\* ------------------------------------------------------- the dashboard read
\* the dashboard is on the screen as a render at the current instant draws
\* it: its paid flags are those of the current month
DashboardRead ==
  /\ Rendered
  /\ activeView = "Home"
  /\ isPaid = PaidShown(Rendered, activeView, duesFilter, recurringTemplates,
                        expenses)

\* C27: whenever the dashboard is read, paid amount is the sum over the
\* linked expenses dated in the calendar month of the current clock time,
\* also after the clock has crossed a month boundary with no new expense
\* snapshot, so that it agrees with the paid flags next to it: with every
\* linked expense belonging to a bill on the page, it is the sum of the
\* payments of the bills flagged paid.
C27_PaidAmountFollowsTheClock ==
  DashboardRead
    => /\ getPaidAmount = SumOfSet(PaidThisMonth(expenses))
       /\ (\A e \in Elems(expenses) :
             "recurringTemplateId" \in DOMAIN e
               => \E b \in Elems(BillsOnPage) : b.id = e.recurringTemplateId)
            => (isPaid = {} => getPaidAmount = 0)

\* ---------------------------------------------------------- the history list
\* C28: a delete issued from the history list of the report targets the
\* collection the record came from: a record of the income list is deleted
\* from the income collection, a record of the expense list (entered through
\* the form or generated by mark-paid) from the expense collection.
C28_HistoryDeleteTargetsItsCollection ==
  [][ (last'.op = "delete" /\ last'.reqs # <<>> /\ activeView = "Reports")
      => LET req == last'.reqs[1]
             income == \E d \in Elems(incomes) : d.id = req.id
             expense == \E d \in Elems(expenses) : d.id = req.id
         IN  /\ Len(last'.reqs) = 1 /\ req.kind = "deleteDoc"
             /\ income # expense
             /\ income => /\ req.path = getIncomeCollectionPath(userId)
                          /\ storeExpenses' = storeExpenses
             /\ expense => /\ req.path = getExpenseCollectionPath(userId)
                           /\ storeIncomes' = storeIncomes
             /\ last'.ok => \A d \in storeIncomes' \cup storeExpenses' :
                              d.id # req.id ]_vars

\* the expense mark-paid generated has just been deleted from the history
\* list, which also lists an income
C28_Witness ==
  /\ last.op = "delete" /\ last.ok
  /\ activeView = "Reports"
  /\ last.reqs[1].path = getExpenseCollectionPath(userId)
  /\ \E e \in Elems(filteredTransactions.expenses) :
       e.id = last.arg /\ IsSet(e, "isGenerated")
  /\ filteredTransactions.incomes # <<>>
  /\ \A d \in storeExpenses : d.id # last.arg

\* ------------------------------------------------------------ the addressee
\* the collections of user uid
CollectionsOf(uid) ==
  {<<"users", uid, c>> : c \in {"incomes", "expenses", "recurringTemplates"}}

\* C29: no subscription is opened and no insert or delete is sent while the
\* database handle or the user id is unset; subscriptions are opened only
\* once auth is ready; every open subscription and every request is
\* addressed to the collections of the current user id, each listener to
\* the collection it is named after.
C29_AddressedToTheUser ==
  /\ \A l \in Listeners :
       subscribed[l].state # "none"
         => /\ db /\ userId # Null /\ isAuthReady
            /\ subscribed[l].path = <<"users", userId, l>>
  /\ \A i \in 1..Len(last.reqs) :
       /\ db /\ userId # Null
       /\ last.reqs[i].path \in CollectionsOf(userId)

\* the listeners are attached and the store has just accepted an insert of
\* the signed-in user
C29_Witness ==
  /\ \A l \in Listeners : subscribed[l].state = "open"
  /\ last.op = "markPaid" /\ last.ok
  /\ last.reqs[1].path = <<"users", Uid, "expenses">>
  /\ userId = Uid

\* ------------------------------------------------------- the end of loading
\* the two outcomes of the start-up
StartupFailed == error # "" /\ ~isAuthReady
StartupReady == isAuthReady /\ userId # Null /\ error = ""

\* C30: from application start, with the auth-state callback delivered and
\* the anonymous sign-in resolved or rejected, loading eventually ends, and
\* when it ends exactly one of two outcomes holds: an error message is set
\* and auth is not ready, or auth is ready with a user id set and no error.
C30_LoadingEnds ==
  /\ <>(~isLoading)
  /\ [][ (isLoading /\ ~isLoading') => (StartupFailed' # StartupReady') ]_vars

\* loading has ended with the rejection of the anonymous sign-in
C30_Witness ==
  /\ ~isLoading
  /\ authPc = "authFailed"
  /\ error = "Authentication failed."
  /\ ~isAuthReady /\ userId = Null
  /\ db

==========================================================================
